---- MODULE Spec2Model ----
(***************************************************************************)
(* State-machine model of the XceptaPay user API (src/server.js): the      *)
(* User collection kept by the store, the tokens handed out by login, the  *)
(* clock that token expiry is measured against, and one action per HTTP    *)
(* handler.  A handler that makes a single store call is one atomic        *)
(* action (MongoDB applies findOneAndUpdate/findOneAndDelete/insert to a   *)
(* single document atomically); register, which reads and later writes,    *)
(* is also modelled step by step for the interleavings of concurrent       *)
(* requests.                                                               *)
(*                                                                         *)
(* Optional request fields are sets: {} is a field the request body does   *)
(* not carry (undefined after destructuring), {v} a field with value v.    *)
(***************************************************************************)
EXTENDS Integers, Sequences, FiniteSets, TLC

VARIABLES users, nextId, tokens, now, resp, reg, pend

vars == <<users, nextId, tokens, now, resp, reg, pend>>

(* ------------------------------ bounds --------------------------------- *)

\* ObjectIds the store hands out over a run (never reused).
MaxUsers == 2
\* Longest transaction_history a request may build.
MaxHist == 2
\* Last instant of the clock, in days.
MaxTime == 2
\* Requests that may be in flight at once in the concurrent specifications.
NumSlots == 2

\* jwt.sign(..., { expiresIn: "1d" }): a token's life, in days.
TokenLife == 1

Ids == 1..MaxUsers
Slots == 1..NumSlots
Emails == {"a@x", "b@x"}
Passwords == {"p", "q"}
RoleEnum == {"user", "admin"}
StatusEnum == {"Success", "Failed", "Pending"}

Has(opt) == opt # {}
Val(opt) == CHOOSE v \in opt : TRUE

(* ------------------------- userSchema (lines 18-34) -------------------- *)

\* Mutant of validTx: amount without min: 0, status without its enum.
validTx_Unconstrained(t) ==
    Has(t.date) /\ Has(t.amount) /\ Has(t.recipient)

\* Subdocument validation: required date/amount/recipient, amount min 0,
\* status in the enum when given.
validTx(t) ==
    /\ Has(t.date) /\ Val(t.date) # ""
    /\ Has(t.amount) /\ Val(t.amount) >= 0
    /\ Has(t.recipient) /\ Val(t.recipient) # ""
    /\ (Has(t.status) => Val(t.status) \in StatusEnum)

\* The stored subdocument: the status default applied.
castTx(t) ==
    [date |-> Val(t.date), amount |-> Val(t.amount),
     recipient |-> Val(t.recipient),
     status |-> IF Has(t.status) THEN Val(t.status) ELSE "Pending"]

validHistory(h) == \A i \in 1..Len(h) : validTx(h[i])

castHistory(h) == [i \in 1..Len(h) |-> castTx(h[i])]

\* Mutant of bcryptHash: the password is stored as given.
bcryptHash_Plain(pw) == pw

\* bcrypt.hash(password, salt): a salted one-way string, never the plaintext.
bcryptHash(pw) == "$2a$10$" \o pw

\* bcrypt.compare(password, hash); a string that is no bcrypt hash (the
\* empty placeholder) compares false.
bcryptCompare(pw, hashed) == hashed = bcryptHash(pw)

\* new User({...}): the document with the schema defaults applied.  The
\* draft's fields are optional; required ones stay optional until validated.
newUser(d) ==
    [username |-> d.username,
     email |-> d.email,
     password |-> d.password,
     balance |-> IF Has(d.balance) THEN Val(d.balance) ELSE 0,
     wallet |-> IF Has(d.wallet) THEN Val(d.wallet) ELSE "",
     seed |-> IF Has(d.seed) THEN Val(d.seed) ELSE "",
     transaction_history |->
        IF Has(d.transaction_history) THEN Val(d.transaction_history) ELSE <<>>,
     role |-> IF Has(d.role) THEN d.role ELSE {"user"}]

\* Document validation run by save(): required strings are present and
\* non-empty, role is in the enum, every subdocument is valid.
validateDoc(doc) ==
    /\ Has(doc.username) /\ Val(doc.username) # ""
    /\ Has(doc.email) /\ Val(doc.email) # ""
    /\ Has(doc.password) /\ Val(doc.password) # ""
    /\ Val(doc.role) \in RoleEnum
    /\ validHistory(doc.transaction_history)

\* The document as the store holds it.
storedDoc(doc) ==
    [username |-> Val(doc.username),
     email |-> Val(doc.email),
     password |-> Val(doc.password),
     balance |-> doc.balance,
     wallet |-> doc.wallet,
     seed |-> doc.seed,
     transaction_history |-> castHistory(doc.transaction_history),
     role |-> Val(doc.role)]

\* Mutant of emailFree: the collection has no unique index.
emailFree_NoIndex(us, email, self) == TRUE

\* The unique index on email: no other document holds this email.
emailFree(us, email, self) ==
    \A i \in DOMAIN us : i # self => us[i].email # email

\* User.findOne({ email }).
findOne(us, email) == {i \in DOMAIN us : us[i].email = email}

(* ------------------- tokens and authMiddleware (39-52) ----------------- *)

NoTok == [id |-> 0, role |-> "", exp |-> 0, sig |-> "none"]
NoHeader == [scheme |-> "none", tok |-> NoTok]

\* jwt.sign({ id, role }, secret, { expiresIn: "1d" }) at the instant t.
jwtSign(id, role, t) ==
    [id |-> id, role |-> role, exp |-> t + TokenLife, sig |-> "ok"]

\* Mutant of jwtVerify: the expiry is ignored.
jwtVerify_NoExpiry(tok, t) == tok.sig = "ok"

\* jwt.verify(token, secret): the signature is the secret's and the expiry
\* has not been reached.
jwtVerify(tok, t) == tok.sig = "ok" /\ t < tok.exp

\* Mutant of authMiddleware: the token is decoded, not verified.
authMiddleware_Unverified(hdr, t) ==
    IF hdr.scheme # "Bearer" THEN "Unauthorized" ELSE "next"

\* "next" when the request goes on to the handler with req.user set, else
\* the error of the 401 response.
authMiddleware(hdr, t) ==
    IF hdr.scheme # "Bearer" THEN "Unauthorized"
    ELSE IF ~jwtVerify(hdr.tok, t) THEN "Invalid token"
    ELSE "next"

\* Mutant of principal: the role is read from the stored user.
principal_FromStore(hdr) ==
    [id |-> hdr.tok.id,
     role |-> IF hdr.tok.id \in DOMAIN users THEN users[hdr.tok.id].role
              ELSE "user"]

\* req.user
principal(hdr) == [id |-> hdr.tok.id, role |-> hdr.tok.role]

\* The four handlers' own copies of the self-or-admin test, and the two
\* admin-only tests: TRUE when the handler answers 403.
postUsersForbidden(p) == p.role # "admin"
getForbidden(p, id) == p.id # id /\ p.role # "admin"
putForbidden(p, id) == p.id # id /\ p.role # "admin"
deleteForbidden(p, id) == p.id # id /\ p.role # "admin"

\* Mutant of listUsersForbidden: the role test left out.
listUsersForbidden_Absent(p) == FALSE

listUsersForbidden(p) == p.role # "admin"

\* Mutant of patchForbidden: the admin exemption left out.
patchForbidden_SubjectOnly(p, id) == p.id # id

patchForbidden(p, id) == p.id # id /\ p.role # "admin"

(* ------------------------------ responses ------------------------------ *)

\* One response: the operation, the HTTP status, the error message ("" on
\* success), the handler steps that ran for it after the middleware
\* ("authz", "hash", "validate", "store"), and the fields of the user
\* document(s) in the body.
Reply(op, status, error, steps, fields) ==
    [op |-> op, status |-> status, error |-> error, steps |-> steps,
     fields |-> fields]

DocFields ==
    {"_id", "username", "email", "password", "balance", "wallet", "seed",
     "transaction_history", "role"}

\* What a handler computes: the response and the collection it leaves.
Out(r, us) == [resp |-> r, users |-> us]

(* ------------------------------ the store ------------------------------ *)

\* insertOne: the collection with the document under the new _id.
insertDoc(us, id, doc) == us @@ (id :> doc)

\* The fields of an update document that are not undefined, as $set.
castUpdate(u) == {f \in DOMAIN u : Has(u[f])}

\* Mutant of validateUpdate: findByIdAndUpdate without runValidators.
validateUpdate_Off(u) == TRUE

\* Update validators (runValidators: true) on the paths being set.
validateUpdate(u) ==
    /\ (Has(u.username) => Val(u.username) # "")
    /\ (Has(u.email) => Val(u.email) # "")
    /\ (Has(u.role) => Val(u.role) \in RoleEnum)
    /\ (Has(u.transaction_history) => validHistory(Val(u.transaction_history)))

\* Mutant of applySet: the update replaces the document, and the fields it
\* does not carry fall back to their schema defaults where they have one.
applySet_Replace(doc, u) ==
    [f \in DOMAIN doc |->
        IF f \in castUpdate(u)
        THEN IF f = "transaction_history" THEN castHistory(Val(u[f]))
             ELSE Val(u[f])
        ELSE IF f = "balance" THEN 0
        ELSE IF f \in {"wallet", "seed"} THEN ""
        ELSE IF f = "transaction_history" THEN <<>>
        ELSE IF f = "role" THEN "user"
        ELSE doc[f]]

\* $set applied to one document.
applySet(doc, u) ==
    [f \in DOMAIN doc |->
        IF f \in castUpdate(u)
        THEN IF f = "transaction_history" THEN castHistory(Val(u[f]))
             ELSE Val(u[f])
        ELSE doc[f]]

\* Mutant of applyPush: the handler writes the array back whole, $set in
\* place of $push.
applyPush_Overwrite(doc, t) ==
    [doc EXCEPT !.transaction_history = <<castTx(t)>>]

\* $push: { transaction_history: t } applied to one document.
applyPush(doc, t) ==
    [doc EXCEPT !.transaction_history = Append(@, castTx(t))]

\* Mutant of remove: the delete finds the document and leaves it stored.
remove_Nothing(us, id) == us

\* findByIdAndDelete: the collection without the document.
remove(us, id) == [i \in DOMAIN us \ {id} |-> us[i]]

(* ------------------------------ handlers ------------------------------- *)

EmptyBody ==
    [username |-> {}, email |-> {}, password |-> {}, balance |-> {},
     wallet |-> {}, seed |-> {}, transaction_history |-> {}, role |-> {}]

\* Mutant of registerFind: the existence check left out.
registerFind_Skipped(us, b) == FALSE

\* POST /auth/register, first store call (line 60): TRUE when findOne
\* returns a document.
registerFind(us, b) == findOne(us, Val(b.email)) # {}

\* POST /auth/register from the hash on (lines 65-73); id is the _id of the
\* new document.
registerSave(us, id, b) ==
    LET doc == newUser([EmptyBody EXCEPT
                   !.username = b.username, !.email = b.email,
                   !.password = {bcryptHash(Val(b.password))},
                   !.role = b.role])
    IN  IF ~Has(b.password)
        THEN Out(Reply("register", 400, "Illegal arguments",
                       <<"store", "hash">>, {}), us)
        ELSE IF ~validateDoc(doc)
        THEN Out(Reply("register", 400, "ValidationError",
                       <<"store", "hash", "validate">>, {}), us)
        ELSE IF ~emailFree(us, Val(doc.email), id)
        THEN Out(Reply("register", 400, "E11000",
                       <<"store", "hash", "validate", "store">>, {}), us)
        ELSE Out(Reply("register", 201, "",
                       <<"store", "hash", "validate", "store">>, DocFields),
                 insertDoc(us, id, storedDoc(doc)))

\* POST /auth/register (lines 56-75) with nothing running between its two
\* store calls.
registerHandler(us, id, b) ==
    IF registerFind(us, b)
    THEN Out(Reply("register", 400, "Email already in use.", <<"store">>, {}),
             us)
    ELSE registerSave(us, id, b)

\* POST /auth/login (lines 78-106): the response and the token issued, if
\* any (a set of at most one token).
loginHandler(us, t, b) ==
    LET found == findOne(us, Val(b.email))
        id == CHOOSE i \in found : TRUE
    IN  IF found = {}
        THEN [resp |-> Reply("login", 400, "Invalid credentials",
                             <<"store">>, {}),
              token |-> {}]
        ELSE IF ~Has(b.password)
        THEN [resp |-> Reply("login", 400, "Illegal arguments",
                             <<"store", "compare">>, {}),
              token |-> {}]
        ELSE IF ~bcryptCompare(Val(b.password), us[id].password)
        THEN [resp |-> Reply("login", 400, "Invalid credentials",
                             <<"store", "compare">>, {}),
              token |-> {}]
        ELSE [resp |-> Reply("login", 200, "", <<"store", "compare", "sign">>,
                             {"_id", "username", "email", "role"}),
              token |-> {jwtSign(id, us[id].role, t)}]

\* POST /users (lines 111-129).
postUsersHandler(us, id, hdr, t, b) ==
    LET hashed == IF Has(b.password) /\ Val(b.password) # ""
                  THEN bcryptHash(Val(b.password)) ELSE ""
        doc == newUser([b EXCEPT !.password = {hashed}])
    IN  IF authMiddleware(hdr, t) # "next"
        THEN Out(Reply("create", 401, authMiddleware(hdr, t), <<>>, {}), us)
        ELSE IF postUsersForbidden(principal(hdr))
        THEN Out(Reply("create", 403, "Forbidden: Admin only", <<"authz">>, {}),
                 us)
        ELSE IF ~validateDoc(doc)
        THEN Out(Reply("create", 400, "ValidationError",
                       <<"authz", "hash", "validate">>, {}), us)
        ELSE IF ~emailFree(us, Val(doc.email), id)
        THEN Out(Reply("create", 400, "E11000",
                       <<"authz", "hash", "validate", "store">>, {}), us)
        ELSE Out(Reply("create", 201, "",
                       <<"authz", "hash", "validate", "store">>, DocFields),
                 insertDoc(us, id, storedDoc(doc)))

\* GET /users (lines 132-142).
listUsersHandler(us, hdr, t) ==
    IF authMiddleware(hdr, t) # "next"
    THEN Out(Reply("list", 401, authMiddleware(hdr, t), <<>>, {}), us)
    ELSE IF listUsersForbidden(principal(hdr))
    THEN Out(Reply("list", 403, "Forbidden: Admin only", <<"authz">>, {}), us)
    ELSE Out(Reply("list", 200, "", <<"authz", "store">>,
                   IF DOMAIN us = {} THEN {} ELSE DocFields), us)

\* Mutant of getHandler: the document is looked up before the 403 test.
getHandler_LookupFirst(us, hdr, t, id) ==
    IF authMiddleware(hdr, t) # "next"
    THEN Out(Reply("get", 401, authMiddleware(hdr, t), <<>>, {}), us)
    ELSE IF id \notin DOMAIN us
    THEN Out(Reply("get", 404, "User not found", <<"store">>, {}), us)
    ELSE IF getForbidden(principal(hdr), id)
    THEN Out(Reply("get", 403, "Forbidden", <<"store", "authz">>, {}), us)
    ELSE Out(Reply("get", 200, "", <<"store", "authz">>, DocFields), us)

\* GET /users/:id (lines 145-158).
getHandler(us, hdr, t, id) ==
    IF authMiddleware(hdr, t) # "next"
    THEN Out(Reply("get", 401, authMiddleware(hdr, t), <<>>, {}), us)
    ELSE IF getForbidden(principal(hdr), id)
    THEN Out(Reply("get", 403, "Forbidden", <<"authz">>, {}), us)
    ELSE IF id \notin DOMAIN us
    THEN Out(Reply("get", 404, "User not found", <<"authz", "store">>, {}), us)
    ELSE Out(Reply("get", 200, "", <<"authz", "store">>, DocFields), us)

\* PUT /users/:id (lines 161-187).
putHandler(us, hdr, t, id, b) ==
    LET u == [b EXCEPT !.password =
                 IF Has(@) /\ Val(@) # "" THEN {bcryptHash(Val(@))} ELSE {}]
    IN  IF authMiddleware(hdr, t) # "next"
        THEN Out(Reply("update", 401, authMiddleware(hdr, t), <<>>, {}), us)
        ELSE IF putForbidden(principal(hdr), id)
        THEN Out(Reply("update", 403, "Forbidden", <<"authz">>, {}), us)
        ELSE IF ~validateUpdate(u)
        THEN Out(Reply("update", 400, "ValidationError",
                       <<"authz", "hash", "validate">>, {}), us)
        ELSE IF id \notin DOMAIN us
        THEN Out(Reply("update", 404, "User not found",
                       <<"authz", "hash", "validate", "store">>, {}), us)
        ELSE IF ~emailFree(us, applySet(us[id], u).email, id)
        THEN Out(Reply("update", 400, "E11000",
                       <<"authz", "hash", "validate", "store">>, {}), us)
        ELSE Out(Reply("update", 200, "",
                       <<"authz", "hash", "validate", "store">>, DocFields),
                 [us EXCEPT ![id] = applySet(@, u)])

\* DELETE /users/:id (lines 190-203).
deleteHandler(us, hdr, t, id) ==
    IF authMiddleware(hdr, t) # "next"
    THEN Out(Reply("delete", 401, authMiddleware(hdr, t), <<>>, {}), us)
    ELSE IF deleteForbidden(principal(hdr), id)
    THEN Out(Reply("delete", 403, "Forbidden", <<"authz">>, {}), us)
    ELSE IF id \notin DOMAIN us
    THEN Out(Reply("delete", 404, "User not found", <<"authz", "store">>, {}),
             us)
    ELSE Out(Reply("delete", 200, "", <<"authz", "store">>, {}), remove(us, id))

\* PATCH /users/:id/transactions up to the store call (lines 206-217): the
\* 401, 403 or validation response, or "store" when the $push goes to the
\* store.
patchCheck(hdr, t, id, tx) ==
    IF authMiddleware(hdr, t) # "next"
    THEN Reply("append", 401, authMiddleware(hdr, t), <<>>, {})
    ELSE IF patchForbidden(principal(hdr), id)
    THEN Reply("append", 403, "Forbidden", <<"authz">>, {})
    ELSE IF ~validTx(tx)
    THEN Reply("append", 400, "ValidationError", <<"authz", "validate">>, {})
    ELSE Reply("append", 0, "store", <<"authz", "validate">>, {})

\* The findByIdAndUpdate of PATCH at the store and the response (213-221).
patchStore(us, id, tx) ==
    IF id \notin DOMAIN us
    THEN Out(Reply("append", 404, "User not found",
                   <<"authz", "validate", "store">>, {}), us)
    ELSE Out(Reply("append", 200, "", <<"authz", "validate", "store">>,
                   DocFields),
             [us EXCEPT ![id] = applyPush(@, tx)])

\* PATCH /users/:id/transactions (lines 206-225).
patchHandler(us, hdr, t, id, tx) ==
    IF patchCheck(hdr, t, id, tx).error # "store"
    THEN Out(patchCheck(hdr, t, id, tx), us)
    ELSE patchStore(us, id, tx)

(* ------------------------------- inputs -------------------------------- *)

Tx0 == [date |-> {"d"}, amount |-> {0}, recipient |-> {"r"},
        status |-> {"Pending"}]
Tx5 == [date |-> {"d"}, amount |-> {5}, recipient |-> {"r"}, status |-> {}]
TxNeg == [date |-> {"d"}, amount |-> {-1}, recipient |-> {"r"},
          status |-> {}]

TxBogus == [date |-> {"d"}, amount |-> {5}, recipient |-> {"r"},
            status |-> {"Bogus"}]
TxNoRecipient == [date |-> {"d"}, amount |-> {5}, recipient |-> {},
                  status |-> {"Success"}]

\* PATCH bodies: a valid transaction and one invalid in each way.
TxInputs == {Tx0, TxNeg, TxBogus, TxNoRecipient}

RegBody(n, e, pw, r) ==
    [username |-> n, email |-> e, password |-> pw, role |-> r]

RegisterBodies ==
    {RegBody({"n"}, {e}, {"p"}, {}) : e \in Emails}
    \cup {RegBody({"n"}, {e}, {"p"}, {"admin"}) : e \in Emails}
    \cup {RegBody({"n"}, {"a@x"}, {"p"}, {"root"}),
          RegBody({}, {"a@x"}, {"p"}, {}),
          RegBody({"n"}, {"a@x"}, {}, {})}

LoginBodies ==
    [email : {{e} : e \in Emails}, password : {{"p"}, {"q"}, {}}]

CreateBody(e, pw, r, h) ==
    [EmptyBody EXCEPT !.username = {"n"}, !.email = e, !.password = pw,
                      !.role = r, !.transaction_history = h]

CreateBodies ==
    {CreateBody({e}, {"p"}, {}, {}) : e \in Emails}
    \cup {CreateBody({"b@x"}, {"p"}, {"admin"}, {}),
          CreateBody({"b@x"}, {}, {}, {})}

UpdateBodies ==
    {EmptyBody}
    \cup {[EmptyBody EXCEPT !.email = {e}] : e \in Emails}
    \cup {[EmptyBody EXCEPT !.role = {r}] : r \in {"user", "admin", "root"}}

\* A token signed with another secret: it claims the admin role.
ForgedTok == [id |-> 1, role |-> "admin", exp |-> MaxTime + TokenLife,
              sig |-> "bad"]

\* The Authorization headers a client can send: none, a scheme other than
\* Bearer, a token login issued, a token signed with another secret.
Headers ==
    {NoHeader, [scheme |-> "Basic", tok |-> NoTok],
     [scheme |-> "Bearer", tok |-> ForgedTok]}
    \cup {[scheme |-> "Bearer", tok |-> k] : k \in tokens}

(* ------------------------------- actions ------------------------------- *)

NoReply == Reply("none", 0, "", <<>>, {})

\* A request slot of the concurrent specifications: where its handler
\* stands ("idle", between its store calls, "done" with the response
\* written), the request it serves, and the transaction_history of the
\* document in the response body.
IdleSlot == [pc |-> "idle", body |-> {}, resp |-> NoReply, returned |-> {}]

Init ==
    /\ users = <<>>
    /\ nextId = 1
    /\ tokens = {}
    /\ now = 0
    /\ resp = NoReply
    /\ reg = [s \in Slots |-> IdleSlot]
    /\ pend = [s \in Slots |-> IdleSlot]

Register(b) ==
    LET o == registerHandler(users, nextId, b)
    IN  /\ resp = NoReply
        /\ o.resp.status = 201 => nextId <= MaxUsers
        /\ users' = o.users
        /\ nextId' = IF o.resp.status = 201 THEN nextId + 1 ELSE nextId
        /\ resp' = o.resp
        /\ UNCHANGED <<tokens, now, reg, pend>>

Login(b) ==
    LET o == loginHandler(users, now, b)
    IN  /\ resp = NoReply
        /\ tokens' = tokens \cup o.token
        /\ resp' = o.resp
        /\ UNCHANGED <<users, nextId, now, reg, pend>>

PostUsers(hdr, b) ==
    LET o == postUsersHandler(users, nextId, hdr, now, b)
    IN  /\ resp = NoReply
        /\ o.resp.status = 201 => nextId <= MaxUsers
        /\ users' = o.users
        /\ nextId' = IF o.resp.status = 201 THEN nextId + 1 ELSE nextId
        /\ resp' = o.resp
        /\ UNCHANGED <<tokens, now, reg, pend>>

ListUsers(hdr) ==
    LET o == listUsersHandler(users, hdr, now)
    IN  /\ resp = NoReply
        /\ users' = o.users
        /\ resp' = o.resp
        /\ UNCHANGED <<nextId, tokens, now, reg, pend>>

GetUser(hdr, id) ==
    LET o == getHandler(users, hdr, now, id)
    IN  /\ resp = NoReply
        /\ users' = o.users
        /\ resp' = o.resp
        /\ UNCHANGED <<nextId, tokens, now, reg, pend>>

PutUser(hdr, id, b) ==
    LET o == putHandler(users, hdr, now, id, b)
    IN  /\ resp = NoReply
        /\ users' = o.users
        /\ resp' = o.resp
        /\ UNCHANGED <<nextId, tokens, now, reg, pend>>

DeleteUser(hdr, id) ==
    LET o == deleteHandler(users, hdr, now, id)
    IN  /\ resp = NoReply
        /\ users' = o.users
        /\ resp' = o.resp
        /\ UNCHANGED <<nextId, tokens, now, reg, pend>>

PatchTransactions(hdr, id, tx) ==
    LET o == patchHandler(users, hdr, now, id, tx)
    IN  /\ resp = NoReply
        /\ o.resp.status = 200 =>
            Len(users[id].transaction_history) < MaxHist
        /\ users' = o.users
        /\ resp' = o.resp
        /\ UNCHANGED <<nextId, tokens, now, reg, pend>>

\* The client has read the response; its next request can go out.
Deliver ==
    /\ resp # NoReply
    /\ resp' = NoReply
    /\ UNCHANGED <<users, nextId, tokens, now, reg, pend>>

\* The clock moves on by a day.
Tick ==
    /\ resp = NoReply
    /\ now < MaxTime
    /\ now' = now + 1
    /\ UNCHANGED <<users, nextId, tokens, resp, reg, pend>>

\* Accounts and access control: every handler, each a single step.
Next ==
    \/ \E b \in RegisterBodies : Register(b)
    \/ \E b \in LoginBodies : Login(b)
    \/ \E hdr \in Headers, b \in CreateBodies : PostUsers(hdr, b)
    \/ \E hdr \in Headers : ListUsers(hdr)
    \/ \E hdr \in Headers, id \in Ids : GetUser(hdr, id)
    \/ \E hdr \in Headers, id \in Ids, b \in UpdateBodies : PutUser(hdr, id, b)
    \/ \E hdr \in Headers, id \in Ids : DeleteUser(hdr, id)
    \/ \E hdr \in Headers, id \in Ids, tx \in TxInputs :
          PatchTransactions(hdr, id, tx)
    \/ Deliver

Spec == Init /\ [][Next]_vars

(* ------------------------------ the clock ------------------------------ *)

\* One account of each role.
ClockRegisterBodies ==
    {RegBody({"n"}, {"a@x"}, {"p"}, {}),
     RegBody({"n"}, {"b@x"}, {"p"}, {"admin"})}

ClockLoginBodies == {[email |-> {e}, password |-> {"p"}] : e \in Emails}

ClockUpdateBodies ==
    {[EmptyBody EXCEPT !.role = {r}] : r \in {"user", "admin"}}

ClockCreateBodies == {CreateBody({"b@x"}, {"p"}, {}, {})}

\* Tokens outstanding at once.
MaxTokens == 2

\* Requests that carry a token, each a single step, with time passing
\* between requests.
NextClock ==
    \/ \E b \in ClockRegisterBodies : Register(b)
    \/ \E b \in ClockLoginBodies :
          Cardinality(tokens) < MaxTokens /\ Login(b)
    \/ \E hdr \in Headers : ListUsers(hdr)
    \/ \E hdr \in Headers, id \in Ids : GetUser(hdr, id)
    \/ \E hdr \in Headers, id \in Ids, b \in ClockUpdateBodies :
          PutUser(hdr, id, b)
    \/ \E hdr \in Headers, id \in Ids : DeleteUser(hdr, id)
    \/ Deliver
    \/ Tick

SpecClock == Init /\ [][NextClock]_vars

(* ----------------------- the transaction history ----------------------- *)

\* An admin account; its login and the login of the account it creates.
HistoryRegisterBodies == {RegBody({"n"}, {"a@x"}, {"p"}, {"admin"})}

HistoryLoginBodies == {[email |-> {e}, password |-> {"p"}] : e \in Emails}

\* Accounts created with and without a transaction_history.
HistoryCreateBodies ==
    {CreateBody({"b@x"}, {"p"}, {}, h) : h \in {{}, {<<Tx5>>}, {<<TxNeg>>}}}

\* Updates that carry a transaction_history, and one that does not.
HistoryUpdateBodies ==
    {[EmptyBody EXCEPT !.transaction_history = {h}]
        : h \in {<<>>, <<Tx5>>, <<TxNeg>>, <<Tx5, TxBogus>>}}
    \cup {[EmptyBody EXCEPT !.role = {"admin"}]}

\* Every operation that can put a transaction_history in the store or
\* change one, each a single step.
NextHistory ==
    \/ \E b \in HistoryRegisterBodies : Register(b)
    \/ \E b \in HistoryLoginBodies : Login(b)
    \/ \E hdr \in Headers, b \in HistoryCreateBodies : PostUsers(hdr, b)
    \/ \E hdr \in Headers, id \in Ids, b \in HistoryUpdateBodies :
          PutUser(hdr, id, b)
    \/ \E hdr \in Headers, id \in Ids : DeleteUser(hdr, id)
    \/ \E hdr \in Headers, id \in Ids, tx \in TxInputs :
          PatchTransactions(hdr, id, tx)
    \/ Deliver

SpecHistory == Init /\ [][NextHistory]_vars

(* ------------------- requests in flight together ----------------------- *)

\* Longest transaction_history the concurrent appends may build.
MaxLedger == 3

\* POST /auth/register up to its first await returning (lines 58-63).
RegisterFind(s, b) ==
    /\ reg[s].pc = "idle"
    /\ reg' = [reg EXCEPT ![s] =
          IF registerFind(users, b)
          THEN [pc |-> "done", body |-> {b},
                resp |-> Reply("register", 400, "Email already in use.",
                               <<"store">>, {}),
                returned |-> {}]
          ELSE [pc |-> "save", body |-> {b}, resp |-> NoReply,
                returned |-> {}]]
    /\ UNCHANGED <<users, nextId, tokens, now, resp, pend>>

\* POST /auth/register from the hash to the response (lines 65-73).
RegisterSave(s) ==
    LET o == registerSave(users, nextId, Val(reg[s].body))
    IN  /\ reg[s].pc = "save"
        /\ o.resp.status = 201 => nextId <= MaxUsers
        /\ users' = o.users
        /\ nextId' = IF o.resp.status = 201 THEN nextId + 1 ELSE nextId
        /\ reg' = [reg EXCEPT ![s] = [@ EXCEPT !.pc = "done", !.resp = o.resp]]
        /\ UNCHANGED <<tokens, now, resp, pend>>

\* The register response has gone out; the slot serves the next request.
RegisterRespond(s) ==
    /\ reg[s].pc = "done"
    /\ reg' = [reg EXCEPT ![s] = IdleSlot]
    /\ UNCHANGED <<users, nextId, tokens, now, resp, pend>>

\* The register bodies of the race: both emails, both roles.
RaceBodies ==
    {RegBody({"n"}, {e}, {"p"}, r) : e \in Emails, r \in {{}, {"admin"}}}
    \cup {RegBody({}, {"a@x"}, {"p"}, {})}

NextRace ==
    \/ \E s \in Slots, b \in RaceBodies : RegisterFind(s, b)
    \/ \E s \in Slots : RegisterSave(s)
    \/ \E s \in Slots : RegisterRespond(s)

\* Register requests alone, interleaved at their store calls.
SpecRace == Init /\ [][NextRace]_vars

\* PATCH /users/:id/transactions up to the store call being sent
\* (lines 206-217).
PatchReceive(s, hdr, id, tx) ==
    LET r == patchCheck(hdr, now, id, tx)
    IN  /\ pend[s].pc = "idle"
        /\ pend' = [pend EXCEPT ![s] =
              IF r.error # "store"
              THEN [pc |-> "done", body |-> {[id |-> id, tx |-> tx]},
                    resp |-> r, returned |-> {}]
              ELSE [pc |-> "store", body |-> {[id |-> id, tx |-> tx]},
                    resp |-> NoReply, returned |-> {}]]
        /\ UNCHANGED <<users, nextId, tokens, now, resp, reg>>

\* The $push of a PATCH in flight, applied by the store, and the response
\* written from the document it returns (lines 213-221).
PatchStore(s) ==
    LET q == Val(pend[s].body)
        o == patchStore(users, q.id, q.tx)
    IN  /\ pend[s].pc = "store"
        /\ o.resp.status = 200 =>
              Len(users[q.id].transaction_history) < MaxLedger
        /\ users' = o.users
        /\ pend' = [pend EXCEPT ![s] =
              [@ EXCEPT !.pc = "done", !.resp = o.resp,
                        !.returned =
                           IF o.resp.status = 200
                           THEN {o.users[q.id].transaction_history}
                           ELSE {}]]
        /\ UNCHANGED <<nextId, tokens, now, resp, reg>>

\* The PATCH response has gone out; the slot serves the next request.
PatchRespond(s) ==
    /\ pend[s].pc = "done"
    /\ pend' = [pend EXCEPT ![s] = IdleSlot]
    /\ UNCHANGED <<users, nextId, tokens, now, resp, reg>>

\* The appends that pass validation.
AppendTxInputs == {Tx0, Tx5}

\* The headers of the appends: a token login issued.
AppendHeaders == {[scheme |-> "Bearer", tok |-> k] : k \in tokens}

NextAppends ==
    \/ \E b \in HistoryRegisterBodies : Register(b)
    \/ \E b \in HistoryLoginBodies : Login(b)
    \/ Deliver
    \/ \E s \in Slots, hdr \in AppendHeaders, id \in Ids, tx \in AppendTxInputs :
          PatchReceive(s, hdr, id, tx)
    \/ \E s \in Slots : PatchStore(s)
    \/ \E s \in Slots : PatchRespond(s)

\* Append-transaction requests in flight together, each applied by the
\* store in any order.
SpecAppends == Init /\ [][NextAppends]_vars

(* ----------------------------- credentials ---------------------------- *)

\* The passwords requests carry: two words and the empty string.
CredPasswords == {"p", "q", ""}

CredRegisterBodies ==
    {RegBody({"n"}, {e}, {pw}, {}) : e \in Emails, pw \in {"p", ""}}

CredLoginBodies ==
    {[email |-> {e}, password |-> {pw}] : e \in Emails, pw \in CredPasswords}

\* Updates that carry a password and nothing else.
CredUpdateBodies ==
    {[EmptyBody EXCEPT !.password = {pw}] : pw \in CredPasswords}

\* Register, login and password change, each a single step.
NextCred ==
    \/ \E b \in CredRegisterBodies : Register(b)
    \/ \E b \in CredLoginBodies : Login(b)
    \/ \E hdr \in Headers, id \in Ids, b \in CredUpdateBodies :
          PutUser(hdr, id, b)
    \/ Deliver

SpecCred == Init /\ [][NextCred]_vars

(* ------------------------------- updates ------------------------------ *)

\* Update bodies that carry one field each, one that carries two, and the
\* empty one; among them an invalid role, an invalid history and an empty
\* password.
PartialBodies ==
    {EmptyBody,
     [EmptyBody EXCEPT !.username = {"m"}],
     [EmptyBody EXCEPT !.email = {"b@x"}],
     [EmptyBody EXCEPT !.password = {"q"}],
     [EmptyBody EXCEPT !.password = {""}],
     [EmptyBody EXCEPT !.balance = {7}],
     [EmptyBody EXCEPT !.wallet = {"w"}],
     [EmptyBody EXCEPT !.seed = {"s"}],
     [EmptyBody EXCEPT !.transaction_history = {<<Tx5>>}],
     [EmptyBody EXCEPT !.transaction_history = {<<TxNeg>>}],
     [EmptyBody EXCEPT !.role = {"admin"}],
     [EmptyBody EXCEPT !.role = {"root"}],
     [EmptyBody EXCEPT !.wallet = {"w"}, !.seed = {"s"}]}

\* The updates the requests of this specification carry.
MergeUpdateBodies ==
    {[EmptyBody EXCEPT !.username = {"m"}],
     [EmptyBody EXCEPT !.balance = {7}],
     [EmptyBody EXCEPT !.password = {""}],
     [EmptyBody EXCEPT !.role = {"root"}]}

\* Two accounts, their logins, and updates of single fields.
NextMerge ==
    \/ \E b \in ClockRegisterBodies : Register(b)
    \/ \E b \in ClockLoginBodies : Login(b)
    \/ \E hdr \in Headers, id \in Ids, b \in MergeUpdateBodies :
          PutUser(hdr, id, b)
    \/ Deliver

SpecMerge == Init /\ [][NextMerge]_vars

(* ------------------------------- deletes ------------------------------ *)

\* Accounts made by register and by an admin, read and deleted, each
\* request a single step.
NextDelete ==
    \/ \E b \in ClockRegisterBodies : Register(b)
    \/ \E b \in ClockLoginBodies : Login(b)
    \/ \E hdr \in Headers, b \in ClockCreateBodies : PostUsers(hdr, b)
    \/ \E hdr \in Headers, id \in Ids : GetUser(hdr, id)
    \/ \E hdr \in Headers, id \in Ids : DeleteUser(hdr, id)
    \/ Deliver

SpecDelete == Init /\ [][NextDelete]_vars

(* ------------------------------- claims -------------------------------- *)

\* A header carrying, as "Bearer <token>", a token that login issued and
\* that has not expired.
ValidBearer(hdr) ==
    hdr.scheme = "Bearer" /\ hdr.tok \in tokens /\ now < hdr.tok.exp

\* The self-or-admin rule as the specification states it.
SelfOrAdmin(hdr, id) == hdr.tok.id = id \/ hdr.tok.role = "admin"

Ran(r, step) == \E i \in 1..Len(r.steps) : r.steps[i] = step

\* The server is ready for a request: the handlers run from these states.
Ready == resp = NoReply

\* What the rule demands of the outcome o of one of the four operations.
SelfOrAdminOutcome(o, hdr, id) ==
    /\ (o.resp.status = 403) <=> ~SelfOrAdmin(hdr, id)
    /\ o.resp.status = 403 => o.users = users /\ o.resp.error = "Forbidden"

\* C1: get, update, delete and append-transaction answer 403 exactly when
\* the token's subject is not the target and its role is not admin, by the
\* same rule in all four, and a 403 leaves the User collection unchanged.
C1_SelfOrAdminRule ==
    Ready =>
      \A hdr \in Headers, id \in Ids :
        ValidBearer(hdr) =>
          /\ SelfOrAdminOutcome(getHandler(users, hdr, now, id), hdr, id)
          /\ SelfOrAdminOutcome(deleteHandler(users, hdr, now, id), hdr, id)
          /\ \A b \in UpdateBodies :
                SelfOrAdminOutcome(putHandler(users, hdr, now, id, b), hdr, id)
          /\ \A tx \in TxInputs :
                SelfOrAdminOutcome(patchHandler(users, hdr, now, id, tx),
                                   hdr, id)

\* C1 witness: an append-transaction aimed at another user's id was refused
\* while both users exist.
C1_Witness ==
    /\ resp.op = "append" /\ resp.status = 403
    /\ Cardinality(DOMAIN users) = 2

\* What admin-only demands of the outcome o of list or create.
AdminOnlyOutcome(o, hdr) ==
    /\ o.resp.status \in {200, 201} => hdr.tok.role = "admin"
    /\ hdr.tok.role = "user" =>
          /\ o.resp.status = 403
          /\ ~Ran(o.resp, "store")
          /\ o.users = users

\* C2: list and create-as-admin succeed only for a token of role admin; a
\* token of role user gets 403, and the collection is neither read nor
\* changed.
C2_AdminOnly ==
    Ready =>
      \A hdr \in Headers :
        ValidBearer(hdr) =>
          /\ AdminOnlyOutcome(listUsersHandler(users, hdr, now), hdr)
          /\ \A b \in CreateBodies :
                AdminOnlyOutcome(postUsersHandler(users, nextId, hdr, now, b),
                                 hdr)

\* C2 witness: a create by a role-user token was refused.
C2_Witness ==
    /\ resp.op = "create" /\ resp.status = 403
    /\ \E k \in tokens : k.role = "user"

\* What 401-before-the-handler demands of the outcome o.
RejectedOutcome(o) ==
    /\ o.resp.status = 401
    /\ o.resp.steps = <<>>
    /\ o.users = users

\* C3: on every protected operation a request with no header, a header
\* that is not "Bearer <token>" or a token that fails verification gets 401
\* and no handler step runs for it: no authorization check, no store call.
C3_RejectBeforeHandler ==
    Ready =>
      \A hdr \in Headers :
        ~ValidBearer(hdr) =>
          /\ RejectedOutcome(listUsersHandler(users, hdr, now))
          /\ \A b \in CreateBodies :
                RejectedOutcome(postUsersHandler(users, nextId, hdr, now, b))
          /\ \A id \in Ids :
                /\ RejectedOutcome(getHandler(users, hdr, now, id))
                /\ RejectedOutcome(deleteHandler(users, hdr, now, id))
                /\ \A b \in UpdateBodies :
                      RejectedOutcome(putHandler(users, hdr, now, id, b))
                /\ \A tx \in TxInputs :
                      RejectedOutcome(patchHandler(users, hdr, now, id, tx))

\* C3 witness: a delete whose token did not verify was answered 401 while
\* users are stored and a token login issued has run out.
C3_Witness ==
    /\ resp.op = "delete" /\ resp.status = 401
    /\ resp.error = "Invalid token"
    /\ users # <<>>
    /\ \E k \in tokens : now >= k.exp

History(id) == users[id].transaction_history

IsPrefix(h, g) == Len(h) <= Len(g) /\ \A i \in 1..Len(h) : h[i] = g[i]

\* C4: no two stored users have the same email.
C4_EmailUnique ==
    \A i, j \in DOMAIN users : i # j => users[i].email # users[j].email

\* C4 witness: an update that asked for the other user's email was refused
\* by the unique index, with both users stored.
C4_Witness ==
    /\ resp.op = "update" /\ resp.error = "E11000"
    /\ Cardinality(DOMAIN users) = 2

\* C6: a register whose email is held by a stored user answers 400 with the
\* duplicate-email error and leaves the collection as it was.
C6_DuplicateRegisterRejected ==
    Ready =>
      \A b \in RegisterBodies :
        (\E i \in DOMAIN users : users[i].email = Val(b.email)) =>
          LET o == registerHandler(users, nextId, b)
          IN  /\ o.resp.status = 400
              /\ o.resp.error = "Email already in use."
              /\ o.users = users

\* C6 witness: a register was refused for its email while the holder of
\* that email is the only user stored.
C6_Witness ==
    /\ resp.op = "register" /\ resp.error = "Email already in use."
    /\ Cardinality(DOMAIN users) = 1

\* C7 as claimed: whatever the operation, a user that stays stored keeps
\* its earlier history as a prefix of its later one.
C7_AppendOnly ==
    [][\A id \in DOMAIN users \cap DOMAIN users' :
          IsPrefix(users[id].transaction_history,
                   users'[id].transaction_history)]_vars

\* What C9 demands of the outcome o of an authorized append of tx to id.
AppendOutcome(o, id, tx) ==
    /\ ((Has(tx.amount) /\ Val(tx.amount) < 0)
          \/ (Has(tx.status) /\ Val(tx.status) \notin StatusEnum)) =>
          /\ o.resp.status = 400 /\ o.resp.error = "ValidationError"
          /\ o.users = users
    /\ (tx = Tx0 /\ id \in DOMAIN users) =>
          /\ o.resp.status = 200
          /\ DOMAIN o.users = DOMAIN users
          /\ o.users[id].transaction_history =
                History(id) \o
                  <<[date |-> "d", amount |-> 0, recipient |-> "r",
                     status |-> "Pending"]>>
          /\ \A f \in DOMAIN users[id] \ {"transaction_history"} :
                o.users[id][f] = users[id][f]
          /\ \A i \in DOMAIN users \ {id} : o.users[i] = users[i]

\* C9: an authorized append with a negative amount or a status outside the
\* enum is a validation failure that changes nothing; an authorized append
\* of amount 0, status Pending to a stored user succeeds and puts exactly
\* that entry after the earlier ones, which stay in order.
C9_AppendValidated ==
    Ready =>
      \A hdr \in Headers, id \in Ids, tx \in TxInputs :
        (ValidBearer(hdr) /\ SelfOrAdmin(hdr, id)) =>
          AppendOutcome(patchHandler(users, hdr, now, id, tx), id, tx)

\* C9 witness: an append came back 200 and the target's history is an
\* amount-5 entry followed by the appended amount-0 entry.
C9_Witness ==
    /\ resp.op = "append" /\ resp.status = 200
    /\ \E id \in DOMAIN users :
          /\ Len(History(id)) = 2
          /\ History(id)[1].amount = 5
          /\ History(id)[2].amount = 0

\* C10: every stored transaction has amount >= 0.
C10_AmountsNonNegative ==
    \A id \in DOMAIN users :
      \A i \in 1..Len(History(id)) : History(id)[i].amount >= 0

\* C10 witness: an update that carried a negative amount in its
\* transaction_history was refused, and the target still holds a history
\* that create or update gave it.
C10_Witness ==
    /\ resp.op = "update" /\ resp.error = "ValidationError"
    /\ \E id \in DOMAIN users :
          Len(History(id)) > 0 /\ History(id)[1].amount = 5

RegDone(s) == reg[s].pc = "done"

RegEmail(s) == Val(Val(reg[s].body).email)

\* C5: of two register requests for one email that run together, at most
\* one creates a record, whichever way their store calls interleave, and
\* the email is never stored twice.
C5_RegisterRace ==
    /\ \A s, t \in Slots :
          (s # t /\ RegDone(s) /\ RegDone(t) /\ RegEmail(s) = RegEmail(t)) =>
            ~(reg[s].resp.status = 201 /\ reg[t].resp.status = 201)
    /\ \A e \in Emails : Cardinality(findOne(users, e)) <= 1

\* C5 witness: two registers for one email both got past findOne; one was
\* answered 201 and the other was refused by the unique index at save.
C5_Witness ==
    \E s, t \in Slots :
      /\ s # t /\ RegDone(s) /\ RegDone(t) /\ RegEmail(s) = RegEmail(t)
      /\ reg[s].resp.status = 201
      /\ reg[t].resp.status = 400 /\ reg[t].resp.error = "E11000"

Appended(s) == pend[s].pc = "done" /\ pend[s].resp.status = 200

\* What the response of the append in slot s shows against the stored
\* history: the document it returned ended with its transaction, and all of
\* it is still the beginning of the stored history.
AppendKept(s) ==
    LET q == Val(pend[s].body)
        h == Val(pend[s].returned)
    IN  /\ q.id \in DOMAIN users
        /\ Len(h) > 0
        /\ h[Len(h)].amount = Val(q.tx.amount)
        /\ IsPrefix(h, History(q.id))

\* C8: when appends for one user are in flight together, every one that
\* completed is in the stored history at a place of its own, after all the
\* entries that were there before it: none overwrites another.
C8_ConcurrentAppends ==
    \A s, t \in Slots :
      (Appended(s) /\ Appended(t) /\ s # t
          /\ Val(pend[s].body).id = Val(pend[t].body).id) =>
        /\ AppendKept(s) /\ AppendKept(t)
        /\ Len(Val(pend[s].returned)) # Len(Val(pend[t].returned))

\* C8 witness: two appends for one user have completed on top of an
\* earlier entry, and the stored history holds all three.
C8_Witness ==
    \E s, t \in Slots :
      /\ s # t /\ Appended(s) /\ Appended(t)
      /\ Val(pend[s].body).id = Val(pend[t].body).id
      /\ Val(pend[s].body).tx # Val(pend[t].body).tx
      /\ Len(Val(pend[s].returned)) = 2
      /\ Len(Val(pend[t].returned)) = 3
      /\ Len(History(Val(pend[s].body).id)) = 3

\* What the caller sees of a login response: the status and the body.
LoginSignal(b) ==
    LET r == loginHandler(users, now, b).resp
    IN  [status |-> r.status, error |-> r.error]

\* C11 as claimed: every login that fails gives the caller the same status
\* and body, whether the email is unknown or known, with a wrong password
\* or with none.
C11_UniformLoginFailure ==
    Ready =>
      \A b, c \in LoginBodies :
        (LoginSignal(b).status # 200 /\ LoginSignal(c).status # 200) =>
          LoginSignal(b) = LoginSignal(c)

\* C13 as claimed: no response carries the password field of a user
\* document.
C13_NoPasswordInResponse == "password" \notin resp.fields

\* The create bodies that are valid but for carrying no password.
CreateWithoutPassword ==
    {b \in CreateBodies :
        /\ ~Has(b.password)
        /\ Has(b.username) /\ Has(b.email)
        /\ (Has(b.role) => Val(b.role) \in RoleEnum)}

\* C15 as claimed: create-as-admin with no password and otherwise valid
\* fields, for an email nobody holds, succeeds and stores the empty
\* placeholder; with a password it stores the hash of that password.
C15_CreateWithoutPassword ==
    Ready =>
      \A hdr \in Headers, b \in CreateBodies :
        (/\ ValidBearer(hdr) /\ hdr.tok.role = "admin"
         /\ findOne(users, Val(b.email)) = {}) =>
          LET o == postUsersHandler(users, nextId, hdr, now, b)
          IN  /\ b \in CreateWithoutPassword =>
                    /\ o.resp.status = 201
                    /\ o.users[nextId].password = ""
              /\ Has(b.password) =>
                    /\ o.resp.status = 201
                    /\ o.users[nextId].password = bcryptHash(Val(b.password))

\* C18 as claimed: the collection starts empty and no token has been
\* issued, so every admin user and every admin token that appears was
\* produced by requests made without an admin token; none ever appears.
C18_NoAdminWithoutAdmin ==
    (\A k \in tokens : k.role # "admin") =>
      /\ \A i \in DOMAIN users : users[i].role # "admin"
      /\ \A b \in LoginBodies :
            \A k \in loginHandler(users, now, b).token : k.role # "admin"

\* The header that carries the token k.
Bearer(k) == [scheme |-> "Bearer", tok |-> k]

\* Every protected handler answers 401 to the header hdr.
AllReject(hdr) ==
    /\ listUsersHandler(users, hdr, now).resp.status = 401
    /\ \A b \in ClockCreateBodies :
          postUsersHandler(users, nextId, hdr, now, b).resp.status = 401
    /\ \A id \in Ids :
          /\ getHandler(users, hdr, now, id).resp.status = 401
          /\ deleteHandler(users, hdr, now, id).resp.status = 401
          /\ \A b \in ClockUpdateBodies :
                putHandler(users, hdr, now, id, b).resp.status = 401
          /\ patchHandler(users, hdr, now, id, Tx0).resp.status = 401

\* C12: the token login issues for a user carries that user's id and role
\* and is accepted at once; every issued token is accepted, with the id and
\* role in it, at every instant before its expiry and rejected with 401 by
\* every protected operation from its expiry on; no token is ever good for
\* more than a day ahead, so nothing has extended one.
C12_TokenRoundTrip ==
    Ready =>
      /\ \A b \in ClockLoginBodies :
            \A k \in loginHandler(users, now, b).token :
              /\ k.id \in findOne(users, Val(b.email))
              /\ k.role = users[k.id].role
              /\ k.exp = now + TokenLife
              /\ authMiddleware(Bearer(k), now) = "next"
              /\ principal(Bearer(k)) = [id |-> k.id, role |-> users[k.id].role]
      /\ \A k \in tokens :
            /\ k.exp <= now + TokenLife
            /\ now < k.exp =>
                  /\ authMiddleware(Bearer(k), now) = "next"
                  /\ principal(Bearer(k)) = [id |-> k.id, role |-> k.role]
                  /\ getHandler(users, Bearer(k), now, k.id).resp.status
                        \in {200, 404}
            /\ now >= k.exp =>
                  /\ authMiddleware(Bearer(k), now) = "Invalid token"
                  /\ AllReject(Bearer(k))

\* C12 witness: a get was answered 401 for its token while one user holds
\* a token that has run out and a later one that has not.
C12_Witness ==
    /\ resp.op = "get" /\ resp.status = 401 /\ resp.error = "Invalid token"
    /\ \E k, j \in tokens : k.id = j.id /\ now >= k.exp /\ now < j.exp

\* The store no longer agrees with the token k: its user is gone or has
\* another role.
Stale(k) == k.id \notin DOMAIN users \/ users[k.id].role # k.role

\* C19: an unexpired token is accepted, and authorization uses the id and
\* role it was issued with, after its user has been deleted or given
\* another role.
C19_StoreIndependent ==
    Ready =>
      \A k \in tokens :
        (now < k.exp /\ Stale(k)) =>
          /\ authMiddleware(Bearer(k), now) = "next"
          /\ (listUsersHandler(users, Bearer(k), now).resp.status = 200)
                <=> k.role = "admin"
          /\ \A id \in Ids :
                /\ (getHandler(users, Bearer(k), now, id).resp.status = 403)
                      <=> (k.id # id /\ k.role # "admin")
                /\ (deleteHandler(users, Bearer(k), now, id).resp.status = 403)
                      <=> (k.id # id /\ k.role # "admin")

\* C19 witness: a list was answered 200 while users are stored and none of
\* them is an admin: the admin token outlived its user's role.
C19_Witness ==
    /\ resp.op = "list" /\ resp.status = 200
    /\ users # <<>>
    /\ \A i \in DOMAIN users : users[i].role = "user"

\* The id was handed out and its user is no longer stored.
Gone(id) == id < nextId /\ id \notin DOMAIN users

\* What C14 demands of the outcome o of an authorized delete of id.
DeleteOutcome(o, id) ==
    /\ id \notin DOMAIN users =>
          /\ o.resp.status = 404 /\ o.resp.error = "User not found"
          /\ o.users = users
    /\ id \in DOMAIN users =>
          /\ o.resp.status = 200
          /\ DOMAIN o.users = DOMAIN users \ {id}
          /\ \A i \in DOMAIN o.users : o.users[i] = users[i]

TargetReplies(us, hdr, id) ==
    {getHandler(us, hdr, now, id).resp, deleteHandler(us, hdr, now, id).resp}
    \cup {putHandler(us, hdr, now, id, b).resp : b \in UpdateBodies}
    \cup {patchHandler(us, hdr, now, id, tx).resp : tx \in TxInputs}

\* C20: a role-user token aimed at another id gets 403 from get, update,
\* delete and append, with the same response whether the target is stored
\* or not; 404 goes only to a principal that passes the self-or-admin rule.
C20_AuthorizationFirst ==
    Ready =>
      \A hdr \in Headers, id \in Ids :
        ValidBearer(hdr) =>
          /\ (hdr.tok.role = "user" /\ hdr.tok.id # id) =>
                /\ \A r \in TargetReplies(users, hdr, id) :
                      r.status = 403 /\ r.error = "Forbidden"
                /\ TargetReplies(users, hdr, id) =
                      TargetReplies([i \in DOMAIN users \ {id} |-> users[i]],
                                    hdr, id)
          /\ \A r \in TargetReplies(users, hdr, id) :
                r.status = 404 => SelfOrAdmin(hdr, id)

\* C20 witness: a get was answered 403 while the only stored user is user 1
\* with role user and every token is that user's: the target was an id
\* that is not stored.
C20_Witness ==
    /\ resp.op = "get" /\ resp.status = 403
    /\ DOMAIN users = {1}
    /\ \A k \in tokens : k.id = 1 /\ k.role = "user"

\* A login with this email and password over the store us succeeds.
LoginOk(us, email, pw) ==
    loginHandler(us, now, [email |-> {email}, password |-> {pw}]).resp.status
      = 200

\* After a successful register, login succeeds with the registered
\* password and with no other, and the stored password is not the
\* plaintext.
RegisterThenLogin ==
    \A b \in CredRegisterBodies :
      LET o == registerHandler(users, nextId, b)
      IN  o.resp.status = 201 =>
            /\ \A q \in CredPasswords :
                  LoginOk(o.users, Val(b.email), q) <=> q = Val(b.password)
            /\ o.users[nextId].password # Val(b.password)

StoredNotPlain ==
    \A i \in DOMAIN users : users[i].password \notin CredPasswords

\* After a successful authorized update carrying a password of P, login
\* succeeds with that password and with no other.
UpdateThenLogin(P) ==
    \A hdr \in Headers, id \in DOMAIN users, p1 \in P :
      (ValidBearer(hdr) /\ SelfOrAdmin(hdr, id)) =>
        LET o == putHandler(users, hdr, now, id,
                            [EmptyBody EXCEPT !.password = {p1}])
        IN  o.resp.status = 200 =>
              \A q \in CredPasswords :
                LoginOk(o.users, users[id].email, q) <=> q = p1

\* C17 as claimed: the credential sequence, for every password an update
\* may carry.
C17_CredentialSequence ==
    Ready =>
      RegisterThenLogin /\ StoredNotPlain /\ UpdateThenLogin(CredPasswords)

\* C17 amended: the credential sequence, for every non-empty password an
\* update may carry; an update whose password is empty succeeds and leaves
\* the stored password as it was.
C17_CredentialSequenceNonEmpty ==
    Ready =>
      /\ RegisterThenLogin /\ StoredNotPlain
      /\ UpdateThenLogin(CredPasswords \ {""})
      /\ \A hdr \in Headers, id \in DOMAIN users :
            (ValidBearer(hdr) /\ SelfOrAdmin(hdr, id)) =>
              LET o == putHandler(users, hdr, now, id,
                                  [EmptyBody EXCEPT !.password = {""}])
              IN  o.resp.status = 200 /\ o.users = users

\* C17 witness: a login succeeded on the only stored user, whose password
\* is the hash of "q", a password only an update can have set.
C17_Witness ==
    /\ resp.op = "login" /\ resp.status = 200
    /\ DOMAIN users = {1}
    /\ users[1].password = bcryptHash("q")

\* The value field f of the stored document takes from the body b.
NewValue(b, f) ==
    IF f = "password" THEN bcryptHash(Val(b.password))
    ELSE IF f = "transaction_history" THEN castHistory(Val(b[f]))
    ELSE Val(b[f])

\* The collection us is users with the fields F of user id taken from b and
\* everything else as it was.
Merged(us, id, b, F) ==
    /\ DOMAIN us = DOMAIN users
    /\ \A i \in DOMAIN users \ {id} : us[i] = users[i]
    /\ \A f \in DOMAIN users[id] :
          us[id][f] = IF f \in F THEN NewValue(b, f) ELSE users[id][f]

\* The fields the body carries.
Carried(b) == {f \in DOMAIN b : Has(b[f])}

\* The fields the body carries, an empty password not counted.
CarriedNonEmpty(b) ==
    {f \in Carried(b) : f = "password" => Val(b.password) # ""}

\* The body passes the schema's validators on the fields it carries.
PassesValidation(b) ==
    /\ Has(b.role) => Val(b.role) \in RoleEnum
    /\ Has(b.transaction_history) =>
          \A i \in 1..Len(Val(b.transaction_history)) :
            Val(Val(b.transaction_history)[i].amount) >= 0

====
